---------------------------- MODULE Spec2Model ----------------------------
(***************************************************************************)
(* Model of lib/loader.js: construction of a component loader (validation, *)
(* topological sort, reserved graphviz target) and of the load function it *)
(* returns (virtual binding check, memoization table, recursive promise    *)
(* based resolution).                                                      *)
(*                                                                         *)
(* Domain of the model: component names are ordinary identifiers (none is  *)
(* an inherited property of Object.prototype, none is "length"); values    *)
(* supplied in options are plain values or null/undefined, not thenables;  *)
(* a directory's own keys are visited in the order of NameOrder.           *)
(***************************************************************************)
EXTENDS Integers, Sequences, FiniteSets, TLC

VARIABLES
  callerDirectory,     \* the componentDirectory object the caller passed
  virtualComponents,   \* the virtualComponents array the caller passed
  loaderResult,        \* "none" before loader() ran, then "ok" or the failure
  componentDirectory,  \* loader's private clone (line 183), graphviz added
  topoSorted,          \* tsort.sort() result captured by graphviz's setup
  calls,               \* one record per invocation of the returned function
  loaded,              \* per call: the `loaded` table, name -> promise id
  promises             \* per call: the promises created, by id

vars == <<callerDirectory, virtualComponents, loaderResult, componentDirectory,
          topoSorted, calls, loaded, promises>>

-----------------------------------------------------------------------------
(* Bounds *)

MaxRequires == 2     \* longest requires list of an enumerated directory
MaxCalls == 2        \* invocations of the returned load function (SpecCalls)
MaxEntries == 4      \* promises, seeded and claimed, over all calls (SpecCalls)
MaxOptions == 3      \* keys of one options object

-----------------------------------------------------------------------------
(* Names and small helpers *)

NameOrder == <<"A", "B", "C", "D", "V", "graphviz">>

Range(s) == {s[i] : i \in DOMAIN s}

EmptyTable == [x \in {} |-> 0]

\* The keys of an object in the order _.forEach visits them
KeysInOrder(obj) == SelectSeq(NameOrder, LAMBDA n : n \in DOMAIN obj)

\* includes(a, v), lines 13-18; arrays of names are modelled by their element set
includes(a, v) == v \in a

-----------------------------------------------------------------------------
(* loader(componentDirectory, virtualComponents): construction *)

\* A component definition as validateComponent and loader read it: what kind
\* of value it is ("object", "null" for null or undefined, "scalar" for a
\* truthy value that is no object, "falsy" for 0, '' or false), whether
\* def.setup is a function, whether def.requires is absent or an array of
\* strings, and the names def.requires lists
Definition(shape, setup, requiresOk, requires) ==
  [shape |-> shape, setup |-> setup, requiresOk |-> requiresOk,
   requires |-> requires]

\* validateComponent(def, name), lines 21-43: how it ends
validateComponent(def) ==
  IF def.shape \in {"scalar", "falsy"} THEN "InvalidComponent"   \* line 25
  ELSE IF def.shape = "null" THEN "TypeError"                    \* def.setup, line 28
  ELSE IF ~def.setup THEN "InvalidComponent"                     \* line 29
  ELSE IF ~def.requiresOk THEN "InvalidComponent"                \* lines 34, 40
  ELSE "ok"

\* def.requires || []
RequiresOf(def) == def.requires

\* componentDirectory[name] as a condition, lines 196 and 249
Truthy(dir, name) == name \in DOMAIN dir /\ dir[name].shape \in {"object", "scalar"}

\* lines 193-199: some dep of def is neither in the directory nor virtual
UndefinedDepIgnoringVirtual(dir, virt, def) ==
  \E i \in DOMAIN RequiresOf(def) : ~Truthy(dir, RequiresOf(def)[i])

UndefinedDep(dir, virt, def) ==
  \E i \in DOMAIN RequiresOf(def) :
     /\ ~Truthy(dir, RequiresOf(def)[i])
     /\ ~includes(virt, RequiresOf(def)[i])

\* lines 186-214: the _.forEach over the directory; the first entry that
\* throws decides the failure
RECURSIVE ValidateEntries(_, _, _)
ValidateEntries(dir, virt, keys) ==
  IF keys = <<>> THEN "ok"
  ELSE LET def == dir[Head(keys)] IN
       IF validateComponent(def) # "ok" THEN validateComponent(def)
       ELSE IF UndefinedDep(dir, virt, def) THEN "UndefinedComponent"
       ELSE ValidateEntries(dir, virt, Tail(keys))

\* Nodes and edges handed to tsort.add, lines 217-244
GraphNodes(dir, virt) ==
  DOMAIN dir \cup virt \cup UNION {Range(RequiresOf(dir[n])) : n \in DOMAIN dir}

DependsOn(dir, n) == IF n \in DOMAIN dir THEN Range(RequiresOf(dir[n])) ELSE {}

\* Names reachable from n along at least one requires edge
RECURSIVE ReachFrom(_, _, _)
ReachFrom(dir, frontier, seen) ==
  LET next == UNION {DependsOn(dir, n) : n \in frontier} IN
  IF next \subseteq seen THEN seen
  ELSE ReachFrom(dir, next \ seen, seen \cup next)

Reachable(dir, n) == ReachFrom(dir, {n}, {})

\* tsort.sort() throws when the graph has a cycle, line 246
HasCycleThroughOthers(dir, virt) ==
  \E n, m \in GraphNodes(dir, virt) :
     n # m /\ m \in Reachable(dir, n) /\ n \in Reachable(dir, m)

HasCycle(dir, virt) == \E n \in GraphNodes(dir, virt) : n \in Reachable(dir, n)

\* tsort.sort(), line 246: dependencies first, ties in insertion order
RECURSIVE TopoOrder(_, _, _)
TopoOrder(dir, todo, done) ==
  LET ready == SelectSeq(todo, LAMBDA n : DependsOn(dir, n) \subseteq Range(done)) IN
  IF todo = <<>> \/ ready = <<>> THEN done
  ELSE TopoOrder(dir, SelectSeq(todo, LAMBDA n : n # Head(ready)),
                 Append(done, Head(ready)))

TopoSort(dir, virt) ==
  TopoOrder(dir, SelectSeq(NameOrder, LAMBDA n : n \in GraphNodes(dir, virt)), <<>>)

\* The failure loader() ends with, or "ok": lines 180-251 in order
ConstructionOutcomeReservedFirst(dir, virt) ==
  IF Truthy(dir, "graphviz") \/ includes(virt, "graphviz") THEN "ReservedName"
  ELSE IF DOMAIN dir \cap virt # {} THEN "VirtualNameCollision"
  ELSE IF ValidateEntries(dir, virt, KeysInOrder(dir)) # "ok"
       THEN ValidateEntries(dir, virt, KeysInOrder(dir))
  ELSE IF HasCycle(dir, virt) THEN "CyclicDependency"
  ELSE "ok"

ConstructionOutcome(dir, virt) ==
  IF DOMAIN dir \cap virt # {} THEN "VirtualNameCollision"
  ELSE IF ValidateEntries(dir, virt, KeysInOrder(dir)) # "ok"
       THEN ValidateEntries(dir, virt, KeysInOrder(dir))
  ELSE IF HasCycle(dir, virt) THEN "CyclicDependency"
  ELSE IF Truthy(dir, "graphviz") \/ includes(virt, "graphviz") THEN "ReservedName"
  ELSE "ok"

\* lines 252-256: the internal graphviz component
GraphvizDefinition == Definition("object", TRUE, TRUE, <<>>)


-----------------------------------------------------------------------------
(* renderGraph(componentDirectory, sortedComponents), lines 49-105 *)

Line(t, from, to) == [t |-> t, from |-> from, to |-> to]

GraphHeader == <<Line("comment", "", ""), Line("comment", "", ""),
                 Line("blank", "", ""), Line("open", "", "")>>

EdgeLines(component, requires) ==
  [i \in 1..Len(requires) |-> Line("edge", component, requires[i])]

\* The lines pushed for the components of `sorted`; not ok as soon as `def`
\* is undefined (def.requires of undefined throws a TypeError, line 67)
RECURSIVE ComponentLines(_, _)
ComponentLines(dir, sorted) ==
  IF sorted = <<>> THEN [ok |-> TRUE, lines |-> <<>>]
  ELSE LET component == Head(sorted) IN
       IF component \notin DOMAIN dir THEN [ok |-> FALSE, lines |-> <<>>]
       ELSE LET rest == ComponentLines(dir, Tail(sorted)) IN
            [ok |-> rest.ok,
             lines |-> <<Line("node", component, "")>>
                       \o EdgeLines(component, RequiresOf(dir[component]))
                       \o rest.lines]

renderGraph(dir, sorted) ==
  LET body == ComponentLines(dir, sorted) IN
  [ok |-> body.ok,
   lines |-> IF body.ok THEN GraphHeader \o body.lines \o <<Line("close", "", "")>>
             ELSE <<>>]

-----------------------------------------------------------------------------
(* Values, promises and the `loaded` table of one call *)

\* A JavaScript value: what it is (k), the component it belongs to (n), the
\* call (c) and promise (p) that produced it, and the text of a graph (g)
Val(k, n, c, p, g) == [k |-> k, n |-> n, c |-> c, p |-> p, g |-> g]

NoVal == Val("none", "", 0, 0, <<>>)
Null == Val("null", "", 0, 0, <<>>)         \* null or undefined
Mock(i) == Val("mock", "", 0, i, <<>>)      \* a plain value the caller supplies
Built(n, c, p) == Val("built", n, c, p, <<>>)      \* an object a setup returns
SetupError(n, c, p) == Val("error", n, c, p, <<>>) \* an error a setup raises
TypeError(n, c, p) == Val("TypeError", n, c, p, <<>>)
Graph(c, p, lines) == Val("graph", "graphviz", c, p, lines)

\* Promise.resolve(comp), line 294
ResolvedPromise(key, comp) ==
  [name |-> key, seeded |-> TRUE, deps |-> <<>>, st |-> "resolved", val |-> comp,
   all |-> "resolved", allErr |-> NoVal, ran |-> 0, ctx |-> EmptyTable]

\* Promise.all(deps).then(...), line 304: nothing has run yet
PendingPromise(target, deps) ==
  [name |-> target, seeded |-> FALSE, deps |-> deps, st |-> "waiting", val |-> NoVal,
   all |-> "pending", allErr |-> NoVal, ran |-> 0, ctx |-> EmptyTable]

\* assume(options[vComp]).exists(), lines 270-274: TRUE when it throws
KeyMissing(virt, options) ==
  \E vComp \in virt : vComp \notin DOMAIN options

MissingVirtual(virt, options) ==
  \E vComp \in virt : vComp \notin DOMAIN options \/ options[vComp] = Null

\* lines 292-295: var loaded = {}; every options entry becomes a resolved promise
RECURSIVE SeedVirtualOnly(_, _, _)
SeedVirtualOnly(options, keys, s) ==
  IF keys = <<>> THEN s
  ELSE IF Head(keys) \notin virtualComponents
       THEN SeedVirtualOnly(options, Tail(keys), s)
  ELSE SeedVirtualOnly(options, Tail(keys),
            [heap |-> Append(s.heap, ResolvedPromise(Head(keys), options[Head(keys)])),
             table |-> s.table @@ (Head(keys) :> Len(s.heap) + 1),
             ret |-> 0])

RECURSIVE Seed(_, _, _)
Seed(options, keys, s) ==
  IF keys = <<>> THEN s
  ELSE Seed(options, Tail(keys),
            [heap |-> Append(s.heap, ResolvedPromise(Head(keys), options[Head(keys)])),
             table |-> s.table @@ (Head(keys) :> Len(s.heap) + 1),
             ret |-> 0])

\* var loaded = {}, line 292: every call starts from an empty table of its own
HoistedLoaded(tables, heaps) ==
  IF tables = <<>> THEN [heap |-> <<>>, table |-> EmptyTable, ret |-> 0]
  ELSE [heap |-> heaps[Len(heaps)], table |-> tables[Len(tables)], ret |-> 0]

NewLoaded(tables, heaps) == [heap |-> <<>>, table |-> EmptyTable, ret |-> 0]

\* if (!loaded[target]), line 299: a promise object is always truthy
Memoized(table, target) == target \in DOMAIN table

\* loaded[target] = Promise.all(...).then(...), line 304
ForgetPromise(table, target, id) == table

Memoize(table, target, id) == (target :> id) @@ table

\* load(target), lines 298-313, and requires.map(load)
RECURSIVE load(_, _, _), MapLoad(_, _, _, _)
load(dir, s, target) ==
  IF Memoized(s.table, target) THEN [s EXCEPT !.ret = s.table[target]]
  ELSE LET def == dir[target]
           r == MapLoad(dir, s, RequiresOf(def), <<>>)
           id == Len(r.s.heap) + 1
       IN  [heap |-> Append(r.s.heap, PendingPromise(target, r.deps)),
            table |-> Memoize(r.s.table, target, id),
            ret |-> id]

MapLoad(dir, s, requires, deps) ==
  IF requires = <<>> THEN [s |-> s, deps |-> deps]
  ELSE LET one == load(dir, s, Head(requires)) IN
       MapLoad(dir, one, Tail(requires), Append(deps, one.ret))


-----------------------------------------------------------------------------
(* Inputs *)

\* The diamond of the documentation, with one virtual component
Diamond ==
  [n \in {"A", "B", "C", "D"} |->
     Definition("object", TRUE, TRUE,
                CASE n = "A" -> <<"B", "C">>
                  [] n = "B" -> <<"D", "V">>
                  [] n = "C" -> <<"D">>
                  [] OTHER   -> <<>>)]

\* A chain without virtual components
Chain ==
  [n \in {"B", "D"} |->
     Definition("object", TRUE, TRUE, IF n = "B" THEN <<"D">> ELSE <<>>)]

CtorNames == {"A", "B", "graphviz"}

RequiresChoices ==
  UNION {{r \in [1..k -> CtorNames] : \A i, j \in 1..k : r[i] = r[j] => i = j}
         : k \in 0..MaxRequires}

DefinitionChoices ==
  {Definition("object", TRUE, TRUE, r) : r \in RequiresChoices}
  \cup {Definition("scalar", FALSE, TRUE, <<>>),  \* a string or a number
        Definition("falsy", FALSE, TRUE, <<>>),   \* 0, '' or false
        Definition("null", FALSE, TRUE, <<>>),    \* null or undefined
        Definition("object", FALSE, TRUE, <<>>),  \* no setup function
        Definition("object", TRUE, FALSE, <<>>)}  \* requires is not an array of strings

DirectoryChoices == UNION {[K -> DefinitionChoices] : K \in SUBSET CtorNames}

OptionValues == {Mock(1), Null}

OptionsChoices(names) ==
  UNION {[K -> OptionValues] : K \in {S \in SUBSET names : Cardinality(S) <= MaxOptions}}

-----------------------------------------------------------------------------
(* Actions *)

TotalEntries(heaps) ==
  LET RECURSIVE Sum(_)
      Sum(i) == IF i = 0 THEN 0 ELSE Len(heaps[i]) + Sum(i - 1)
  IN  Sum(Len(heaps))

\* componentDirectory = _.clone(componentDirectory), line 183: what the
\* caller's object holds once loader() has written to the object it works on
\* (`written`, line 252); without the clone the two are one object
SameObject(dir, written) == written

CallerObject(dir, written) == dir

\* loader(componentDirectory, virtualComponents), lines 177-317
Construct ==
  /\ loaderResult = "none"
  /\ loaderResult' = ConstructionOutcome(callerDirectory, virtualComponents)
  /\ IF loaderResult' = "ok"
     THEN /\ componentDirectory' =
               ("graphviz" :> GraphvizDefinition) @@ callerDirectory
          /\ topoSorted' = TopoSort(callerDirectory, virtualComponents)
          /\ callerDirectory' = CallerObject(callerDirectory, componentDirectory')
     ELSE UNCHANGED <<callerDirectory, componentDirectory, topoSorted>>
  /\ UNCHANGED <<virtualComponents, calls, loaded, promises>>

\* The returned function, lines 258-316: the virtual binding check, the seeding
\* of `loaded` and the synchronous recursion of load(target)
CallLoadEager(target, options) ==
  /\ loaderResult = "ok"
  /\ LET thrown == MissingVirtual(virtualComponents, options)
         seeded == Seed(options, KeysInOrder(options), NewLoaded(loaded, promises))
         every == MapLoad(componentDirectory, seeded, KeysInOrder(callerDirectory), <<>>)
         s == IF thrown THEN [heap |-> <<>>, table |-> EmptyTable, ret |-> 0]
              ELSE load(componentDirectory, every.s, target)
     IN  /\ calls' = Append(calls, [target |-> target, options |-> options,
                                    thrown |-> thrown, ret |-> s.ret])
         /\ loaded' = Append(loaded, s.table)
         /\ promises' = Append(promises, s.heap)
  /\ UNCHANGED <<callerDirectory, virtualComponents, loaderResult,
                 componentDirectory, topoSorted>>

CallLoad(target, options) ==
  /\ loaderResult = "ok"
  /\ LET thrown == MissingVirtual(virtualComponents, options)
         seeded == Seed(options, KeysInOrder(options), NewLoaded(loaded, promises))
         s == IF thrown THEN [heap |-> <<>>, table |-> EmptyTable, ret |-> 0]
              ELSE load(componentDirectory, seeded, target)
     IN  /\ calls' = Append(calls, [target |-> target, options |-> options,
                                    thrown |-> thrown, ret |-> s.ret])
         /\ loaded' = Append(loaded, s.table)
         /\ promises' = Append(promises, s.heap)
  /\ UNCHANGED <<callerDirectory, virtualComponents, loaderResult,
                 componentDirectory, topoSorted>>

\* A promise is rejected: every Promise.all that holds it and is still pending
\* is rejected with the same reason
RejectUnobserved(heap, p, err) ==
  [heap EXCEPT ![p].st = "rejected", ![p].val = err]

RejectAndRetry(heap, p, err) ==
  [q \in DOMAIN heap |->
     IF q = p THEN [heap[q] EXCEPT !.st = "waiting", !.all = "pending", !.val = err]
     ELSE heap[q]]

Reject(heap, p, err) ==
  [q \in DOMAIN heap |->
     IF q = p THEN [heap[q] EXCEPT !.st = "rejected", !.val = err]
     ELSE IF p \in Range(heap[q].deps) /\ heap[q].all = "pending"
          THEN [heap[q] EXCEPT !.all = "rejected", !.allErr = err]
          ELSE heap[q]]

Resolve(heap, p, v) == [heap EXCEPT ![p].st = "resolved", ![p].val = v]

\* lines 305-308: ctx[def.requires[i]] = deps[i]
ContextWithOptions(requires, heap, deps) ==
  LET required == {requires[i] : i \in 1..Len(deps)}
      supplied == {q \in DOMAIN heap : heap[q].seeded}
  IN  [n \in required \cup {heap[q].name : q \in supplied} |->
         IF n \in required
         THEN heap[deps[CHOOSE i \in 1..Len(deps) : requires[i] = n]].val
         ELSE heap[CHOOSE q \in supplied : heap[q].name = n].val]

Context(requires, heap, deps) ==
  [n \in {requires[i] : i \in 1..Len(deps)} |->
     heap[deps[CHOOSE i \in 1..Len(deps) :
                 /\ requires[i] = n
                 /\ \A j \in 1..Len(deps) : requires[j] = n => j <= i]].val]

\* Promise.all(requires.map(load)), line 304: resolved once every dep is
AllResolvedNonEmpty(heap, p) ==
  /\ heap[p].deps # <<>>
  /\ \A d \in Range(heap[p].deps) : heap[d].st = "resolved"

AllResolvedOneAtATime(heap, p) ==
  /\ \A d \in Range(heap[p].deps) : heap[d].st = "resolved"
  /\ \A q \in DOMAIN heap : heap[q].st # "running"

AllResolvedNoneFailed(heap, p) ==
  /\ \A d \in Range(heap[p].deps) : heap[d].st = "resolved"
  /\ \A q \in DOMAIN heap : heap[q].st # "rejected"

AllStarted(heap, p) ==
  \A d \in Range(heap[p].deps) : heap[d].st \in {"running", "resolved"}

AnyResolved(heap, p) ==
  heap[p].deps = <<>> \/ \E d \in Range(heap[p].deps) : heap[d].st = "resolved"

AllResolved(heap, p) == \A d \in Range(heap[p].deps) : heap[d].st = "resolved"

\* The callback of Promise.all(...).then, lines 304-310: build ctx and invoke
\* def.setup; the setup returns a value, throws, or returns a pending promise
InvokeSetup(c, p) ==
  LET heap == promises[c]
      pr == heap[p]
      def == componentDirectory[pr.name]
      ctx == Context(RequiresOf(def), heap, pr.deps)
      called == [heap EXCEPT ![p].ran = @ + 1, ![p].ctx = ctx, ![p].all = "resolved"]
  IN  /\ pr.st = "waiting"
      /\ pr.all = "pending"
      /\ AllResolved(heap, p)
      /\ IF pr.name = "graphviz"
         THEN LET g == renderGraph(componentDirectory, topoSorted) IN
              promises' = [promises EXCEPT ![c] =
                 IF g.ok THEN Resolve(called, p, Graph(c, p, g.lines))
                 ELSE Reject(called, p, TypeError("graphviz", c, p))]
         ELSE \E outcome \in {"return", "throw", "defer"} :
              promises' = [promises EXCEPT ![c] =
                 CASE outcome = "return" -> Resolve(called, p, Built(pr.name, c, p))
                   [] outcome = "throw"  -> Reject(called, p, SetupError(pr.name, c, p))
                   [] OTHER -> [called EXCEPT ![p].st = "running"]]
      /\ UNCHANGED <<callerDirectory, virtualComponents, loaderResult,
                     componentDirectory, topoSorted, calls, loaded>>

\* The promise a setup returned settles
Settle(c, p) ==
  LET heap == promises[c]
      pr == heap[p]
  IN  /\ pr.st = "running"
      /\ \E ok \in BOOLEAN :
           promises' = [promises EXCEPT ![c] =
              IF ok THEN Resolve(heap, p, Built(pr.name, c, p))
              ELSE Reject(heap, p, SetupError(pr.name, c, p))]
      /\ UNCHANGED <<callerDirectory, virtualComponents, loaderResult,
                     componentDirectory, topoSorted, calls, loaded>>

\* Promise.all was rejected: the then-promise is rejected with the same reason
\* and the callback of lines 304-310 never runs
Propagate(c, p) ==
  LET heap == promises[c]
      pr == heap[p]
  IN  /\ pr.st = "waiting"
      /\ pr.all = "rejected"
      /\ promises' = [promises EXCEPT ![c] = Reject(heap, p, pr.allErr)]
      /\ UNCHANGED <<callerDirectory, virtualComponents, loaderResult,
                     componentDirectory, topoSorted, calls, loaded>>

-----------------------------------------------------------------------------
(* Specifications *)

InitWith(dir, virt) ==
  /\ callerDirectory = dir
  /\ virtualComponents = virt
  /\ loaderResult = "none"
  /\ componentDirectory = EmptyTable
  /\ topoSorted = <<>>
  /\ calls = <<>>
  /\ loaded = <<>>
  /\ promises = <<>>

Targets == DOMAIN componentDirectory \cup virtualComponents

\* One loader over the diamond and one invocation of the function it returns
Init == InitWith(Diamond, {"V"})

FirstCall ==
  /\ calls = <<>>
  /\ \E target \in Targets, options \in OptionsChoices(Targets) :
        CallLoad(target, options)

Next ==
  \/ Construct
  \/ FirstCall
  \/ \E c \in DOMAIN promises : \E p \in DOMAIN promises[c] : InvokeSetup(c, p)
  \/ \E c \in DOMAIN promises : \E p \in DOMAIN promises[c] : Settle(c, p)
  \/ \E c \in DOMAIN promises : \E p \in DOMAIN promises[c] : Propagate(c, p)

Spec == Init /\ [][Next]_vars

\* The same, with the job queue of the promises run to exhaustion: a callback
\* of Promise.all(...).then that can run does run, and so does the rejection of
\* a then-promise whose Promise.all was rejected. Whether the promise a setup
\* returned ever settles is up to the setup.
SpecLive ==
  /\ Init
  /\ [][Next]_vars
  /\ WF_vars(\E c \in DOMAIN promises : \E p \in DOMAIN promises[c] : InvokeSetup(c, p))
  /\ WF_vars(\E c \in DOMAIN promises : \E p \in DOMAIN promises[c] : Propagate(c, p))

\* One loader over the chain and several invocations, sequential or interleaved
InitCalls == InitWith(Chain, {})

AnotherCall ==
  /\ Len(calls) < MaxCalls
  /\ \E target \in Targets, options \in OptionsChoices(Targets) :
        /\ CallLoad(target, options)
        /\ TotalEntries(promises') <= MaxEntries

NextCalls ==
  \/ Construct
  \/ AnotherCall
  \/ \E c \in DOMAIN promises : \E p \in DOMAIN promises[c] : InvokeSetup(c, p)
  \/ \E c \in DOMAIN promises : \E p \in DOMAIN promises[c] : Settle(c, p)
  \/ \E c \in DOMAIN promises : \E p \in DOMAIN promises[c] : Propagate(c, p)

SpecCalls == InitCalls /\ [][NextCalls]_vars

\* Construction over every enumerated directory, then one load of graphviz with
\* every virtual component bound
InitCtor ==
  \E dir \in DirectoryChoices, virt \in SUBSET CtorNames : InitWith(dir, virt)

AllVirtualBound == [v \in virtualComponents |-> Mock(1)]

GraphvizCall ==
  /\ calls = <<>>
  /\ CallLoad("graphviz", AllVirtualBound)

NextCtor ==
  \/ Construct
  \/ GraphvizCall
  \/ \E c \in DOMAIN promises : \E p \in DOMAIN promises[c] : InvokeSetup(c, p)

SpecCtor == InitCtor /\ [][NextCtor]_vars

-----------------------------------------------------------------------------
(* Vocabulary of the properties *)

AllNames == Range(NameOrder)

Started(c) == ~calls[c].thrown

\* The promises of call c in which the setup of component n was invoked
Invoked(c, n) ==
  {p \in DOMAIN promises[c] : promises[c][p].name = n /\ promises[c][p].ran > 0}

Invocations(c, n) == Cardinality(Invoked(c, n))

\* Promises of call c that hold promise d among their dependencies, directly
\* or through other promises
RECURSIVE DependentsFrom(_, _, _)
DependentsFrom(heap, frontier, seen) ==
  LET next == {q \in DOMAIN heap : Range(heap[q].deps) \cap frontier # {}} IN
  IF next \subseteq seen THEN seen
  ELSE DependentsFrom(heap, next \ seen, seen \cup next)

Dependents(heap, d) == DependentsFrom(heap, {d}, {})

\* The setup of promise p was invoked and failed
SetupFailed(heap, p) ==
  heap[p].ran > 0 /\ heap[p].st = "rejected"

-----------------------------------------------------------------------------
(* C1: within one invocation of the returned function every component's    *)
(* setup is invoked at most once, any two setups that receive the same     *)
(* dependency receive the same value, and in the diamond, once B and C     *)
(* both ran without D being supplied, D's setup ran exactly once.          *)
C1_SetupAtMostOnce ==
  \A c \in DOMAIN calls :
    /\ \A n \in AllNames : Invocations(c, n) <= 1
    /\ \A p, q \in DOMAIN promises[c] :
         \A n \in DOMAIN promises[c][p].ctx \cap DOMAIN promises[c][q].ctx :
            promises[c][p].ctx[n] = promises[c][q].ctx[n]
    /\ ( /\ Invocations(c, "B") = 1
         /\ Invocations(c, "C") = 1
         /\ "D" \notin DOMAIN calls[c].options )
       => Invocations(c, "D") = 1

C1_Witness ==
  \E c \in DOMAIN calls :
    /\ calls[c].target = "A"
    /\ "D" \notin DOMAIN calls[c].options
    /\ \E b \in Invoked(c, "B"), cc \in Invoked(c, "C"), d \in Invoked(c, "D") :
         /\ promises[c][b].ctx["D"] = Built("D", c, d)
         /\ promises[c][cc].ctx["D"] = Built("D", c, d)
    /\ Invocations(c, "A") = 1

-----------------------------------------------------------------------------
\* Every name required by promise p of call c is settled before the step
RequiresSettled(c, p) ==
  LET requires == RequiresOf(componentDirectory[promises[c][p].name]) IN
  \A i \in DOMAIN requires :
     /\ requires[i] \in DOMAIN loaded[c]
     /\ LET d == promises[c][loaded[c][requires[i]]] IN
        /\ d.st = "resolved"
        /\ d.seeded \/ d.ran = 1
        /\ promises'[c][p].ctx[requires[i]] = d.val

(* C2: whenever a step invokes a component's setup, every name of its      *)
(* requires list already has, in the state before the step, a resolved     *)
(* entry in the call's table (seeded from options, or a setup that ran and *)
(* finished), and the context holds exactly those values.                  *)
C2_SetupAfterRequires ==
  [][\A c \in DOMAIN promises : \A p \in DOMAIN promises[c] :
        promises'[c][p].ran > promises[c][p].ran => RequiresSettled(c, p)]_vars

C2_Witness ==
  \E c \in DOMAIN calls :
    /\ Invocations(c, "A") = 1
    /\ \E b \in Invoked(c, "B"), cc \in Invoked(c, "C") :
         \A a \in Invoked(c, "A") :
            promises[c][a].ctx = ("B" :> Built("B", c, b)) @@ ("C" :> Built("C", c, cc))

-----------------------------------------------------------------------------
(* C3: in every call that passes the virtual binding check, every key of   *)
(* options is bound in the call's table to a promise resolved with the     *)
(* supplied value, no setup of a component of that name is ever claimed or *)
(* invoked, every context that holds the name holds the supplied value,    *)
(* and a target that is itself a key is answered with the supplied value.  *)
C3_OptionsOverride ==
  \A c \in DOMAIN calls : Started(c) =>
    \A k \in DOMAIN calls[c].options :
      /\ k \in DOMAIN loaded[c]
      /\ promises[c][loaded[c][k]].seeded
      /\ promises[c][loaded[c][k]].st = "resolved"
      /\ promises[c][loaded[c][k]].val = calls[c].options[k]
      /\ \A p \in DOMAIN promises[c] :
           /\ promises[c][p].name = k => promises[c][p].seeded /\ promises[c][p].ran = 0
           /\ k \in DOMAIN promises[c][p].ctx =>
                promises[c][p].ctx[k] = calls[c].options[k]
      /\ calls[c].target = k => calls[c].ret = loaded[c][k]

C3_Witness ==
  \E c \in DOMAIN calls :
    /\ calls[c].options = ("V" :> Mock(1)) @@ ("D" :> Null)
    /\ calls[c].target = "B"
    /\ \E b \in Invoked(c, "B") :
         /\ promises[c][b].ctx = ("D" :> Null) @@ ("V" :> Mock(1))
         /\ promises[c][b].st = "resolved"
    /\ Invocations(c, "D") = 0

-----------------------------------------------------------------------------
(* C4 as stated: a call fails the virtual binding check exactly when some  *)
(* virtual component name is not a key of options.                         *)
C4_FailsIffKeyAbsent ==
  \A c \in DOMAIN calls :
    calls[c].thrown <=>
      (\E v \in virtualComponents : v \notin DOMAIN calls[c].options)

(* C4 as amended: a call fails the virtual binding check exactly when some *)
(* virtual component name is not a key of options or is bound to null or   *)
(* undefined; a call that fails this way created no table entry and        *)
(* invoked no setup.                                                       *)
C4_FailsIffUnboundOrNull ==
  \A c \in DOMAIN calls :
    /\ calls[c].thrown <=>
         (\E v \in virtualComponents :
             \/ v \notin DOMAIN calls[c].options
             \/ calls[c].options[v].k = "null")
    /\ calls[c].thrown =>
         /\ promises[c] = <<>>
         /\ loaded[c] = EmptyTable
         /\ \A n \in AllNames : Invocations(c, n) = 0

C4_Witness ==
  \E c \in DOMAIN calls :
    /\ calls[c].thrown
    /\ calls[c].target = "D"
    /\ calls[c].options = ("V" :> Null)

-----------------------------------------------------------------------------
(* C5 as stated: once D's setup has failed, every promise that depends on  *)
(* D never has its setup invoked and, when it fails, fails with D's        *)
(* failure; D's setup ran once.                                            *)
C5_SameFailure ==
  \A c \in DOMAIN calls : \A d \in DOMAIN promises[c] :
    SetupFailed(promises[c], d) =>
      /\ Invocations(c, promises[c][d].name) = 1
      /\ \A q \in Dependents(promises[c], d) :
           /\ promises[c][q].ran = 0
           /\ promises[c][q].st \in {"waiting", "rejected"}
           /\ promises[c][q].st = "rejected" => promises[c][q].val = promises[c][d].val

(* C5 as amended: once D's setup has failed, every promise that depends on *)
(* D never has its setup invoked and never resolves; the Promise.all of a  *)
(* direct dependent is rejected; when a dependent fails it fails with the  *)
(* failure of a failed setup it depends on, D's own when D is the only     *)
(* setup that failed; D's setup ran once.                                  *)
C5_FirstFailure ==
  \A c \in DOMAIN calls : \A d \in DOMAIN promises[c] :
    SetupFailed(promises[c], d) =>
      /\ Invocations(c, promises[c][d].name) = 1
      /\ \A q \in Dependents(promises[c], d) :
           /\ promises[c][q].ran = 0
           /\ promises[c][q].st \in {"waiting", "rejected"}
           /\ d \in Range(promises[c][q].deps) => promises[c][q].all = "rejected"
           /\ promises[c][q].st = "rejected" =>
                \E e \in DOMAIN promises[c] :
                   /\ SetupFailed(promises[c], e)
                   /\ q \in Dependents(promises[c], e)
                   /\ promises[c][q].val = promises[c][e].val
           /\ ( /\ promises[c][q].st = "rejected"
                /\ \A e \in DOMAIN promises[c] : SetupFailed(promises[c], e) => e = d )
              => promises[c][q].val = promises[c][d].val

C5_Witness ==
  \E c \in DOMAIN calls :
    /\ calls[c].target = "A"
    /\ \E b, cc \in DOMAIN promises[c] :
         /\ promises[c][b].name = "B" /\ SetupFailed(promises[c], b)
         /\ promises[c][cc].name = "C" /\ SetupFailed(promises[c], cc)
         /\ promises[c][calls[c].ret].st = "rejected"
         /\ promises[c][calls[c].ret].val = promises[c][cc].val

-----------------------------------------------------------------------------
(* Vocabulary of the construction properties, stated on the caller's input *)

Collides == \E n \in DOMAIN callerDirectory : n \in virtualComponents

WellFormed(n) ==
  /\ callerDirectory[n].shape = "object"
  /\ callerDirectory[n].setup
  /\ callerDirectory[n].requiresOk

Malformed == \E n \in DOMAIN callerDirectory : ~WellFormed(n)

Dangling(n) ==
  \E i \in DOMAIN callerDirectory[n].requires :
     /\ callerDirectory[n].requires[i] \notin DOMAIN callerDirectory
     /\ callerDirectory[n].requires[i] \notin virtualComponents

DanglingReference == \E n \in DOMAIN callerDirectory : Dangling(n)

Requires(n, m) ==
  /\ n \in DOMAIN callerDirectory
  /\ \E i \in DOMAIN callerDirectory[n].requires : callerDirectory[n].requires[i] = m

\* Some component requires itself, directly or through a chain of requires
Cyclic ==
  \E k \in 1..Cardinality(DOMAIN callerDirectory) :
    \E path \in [1..k -> DOMAIN callerDirectory] :
       /\ \A i \in 1..(k - 1) : Requires(path[i], path[i + 1])
       /\ Requires(path[k], path[1])

UsesReservedName ==
  "graphviz" \in DOMAIN callerDirectory \/ "graphviz" \in virtualComponents

NoLoadFunction == componentDirectory = EmptyTable /\ calls = <<>>

Constructed == loaderResult # "none"

\* Position of a key in the order the directory is visited
Position(n) == CHOOSE i \in DOMAIN NameOrder : NameOrder[i] = n

-----------------------------------------------------------------------------
(* C6 as stated: construction fails with CyclicDependency, returning no    *)
(* load function, for every directory with a cycle, and succeeds for every *)
(* acyclic directory (one with no other defect).                           *)
C6_CycleAlwaysReported ==
  Constructed =>
    /\ Cyclic => loaderResult = "CyclicDependency" /\ NoLoadFunction
    /\ (~Cyclic /\ ~Collides /\ ~Malformed /\ ~DanglingReference /\ ~UsesReservedName)
         => loaderResult = "ok"

(* C6 as amended: among the inputs that pass the earlier checks (no name   *)
(* in both the directory and the virtual list, every definition well       *)
(* formed, every required name defined), construction fails with           *)
(* CyclicDependency and returns no load function exactly for those with a  *)
(* cycle, self-loops included, and succeeds for the acyclic ones that do   *)
(* not use the reserved name; no other input fails with CyclicDependency.  *)
C6_CycleReportedAfterEarlierChecks ==
  Constructed =>
    /\ (~Collides /\ ~Malformed /\ ~DanglingReference /\ Cyclic)
         => loaderResult = "CyclicDependency" /\ NoLoadFunction
    /\ (~Collides /\ ~Malformed /\ ~DanglingReference /\ ~Cyclic /\ ~UsesReservedName)
         => loaderResult = "ok"
    /\ loaderResult = "CyclicDependency"
         => Cyclic /\ ~Collides /\ ~Malformed /\ ~DanglingReference

C6_Witness ==
  /\ loaderResult = "CyclicDependency"
  /\ DOMAIN callerDirectory = {"A"}
  /\ callerDirectory["A"].requires = <<"A">>
  /\ NoLoadFunction

-----------------------------------------------------------------------------
(* C7 as stated: construction fails with ReservedName whenever the         *)
(* directory defines graphviz or the virtual list declares it, whatever    *)
(* other defects the input has.                                            *)
C7_ReservedNameRegardless ==
  (Constructed /\ UsesReservedName) => loaderResult = "ReservedName"

(* C7 as amended: construction never succeeds when the directory defines   *)
(* graphviz or the virtual list declares it; it fails with ReservedName    *)
(* exactly when the input has no defect that is checked earlier (a name in *)
(* both lists, a malformed definition, an undefined requirement, a cycle)  *)
(* and otherwise with the failure of that earlier check.                   *)
C7_ReservedNameCheckedLast ==
  (Constructed /\ UsesReservedName) =>
    /\ loaderResult # "ok" /\ NoLoadFunction
    /\ loaderResult = "ReservedName"
         <=> (~Collides /\ ~Malformed /\ ~DanglingReference /\ ~Cyclic)
    /\ Collides => loaderResult = "VirtualNameCollision"
    /\ (~Collides /\ (Malformed \/ DanglingReference))
         => loaderResult \in {"InvalidComponent", "TypeError", "UndefinedComponent"}
    /\ (~Collides /\ ~Malformed /\ ~DanglingReference /\ Cyclic)
         => loaderResult = "CyclicDependency"

C7_Witness ==
  /\ loaderResult = "ReservedName"
  /\ "graphviz" \in DOMAIN callerDirectory
  /\ "A" \in virtualComponents
  /\ callerDirectory["graphviz"].requires = <<"A">>

-----------------------------------------------------------------------------
(* C8 as stated: construction fails with UndefinedComponent for every      *)
(* directory in which some requires entry is neither a directory key nor a *)
(* virtual component name.                                                 *)
C8_UndefinedAlwaysReported ==
  (Constructed /\ DanglingReference) => loaderResult = "UndefinedComponent"

(* C8 as amended: construction fails with UndefinedComponent for every     *)
(* input in which no name is in both the directory and the virtual list    *)
(* and some entry has a requires entry that is neither a directory key nor *)
(* a virtual component name while that entry and every entry visited       *)
(* before it are well formed, in particular whenever all definitions are   *)
(* well formed; it fails with UndefinedComponent only if some requires     *)
(* entry is not a virtual name and not a key bound to a definition.        *)
C8_UndefinedReportedInOrder ==
  Constructed =>
    /\ ( /\ ~Collides
         /\ \E n \in DOMAIN callerDirectory :
              /\ Dangling(n)
              /\ \A m \in DOMAIN callerDirectory :
                   Position(m) <= Position(n) => WellFormed(m) )
       => loaderResult = "UndefinedComponent" /\ NoLoadFunction
    /\ (~Collides /\ ~Malformed /\ DanglingReference)
         => loaderResult = "UndefinedComponent"
    /\ loaderResult = "UndefinedComponent" =>
         /\ ~Collides
         /\ \E n \in DOMAIN callerDirectory : \E i \in DOMAIN callerDirectory[n].requires :
              LET dep == callerDirectory[n].requires[i] IN
              /\ dep \notin virtualComponents
              /\ dep \in DOMAIN callerDirectory
                   => callerDirectory[dep].shape \in {"falsy", "null"}

C8_Witness ==
  /\ loaderResult = "UndefinedComponent"
  /\ DOMAIN callerDirectory = {"A", "B"}
  /\ virtualComponents = {}
  /\ callerDirectory["A"].requires = <<"B">>
  /\ callerDirectory["B"].requires = <<"graphviz">>

-----------------------------------------------------------------------------
\* What a graph description says about the caller's directory
NodeLines(g) == {i \in DOMAIN g : g[i].t = "node"}

EdgeLinesOf(g) == {i \in DOMAIN g : g[i].t = "edge"}

DescribesDirectory(g) ==
  /\ \A n \in DOMAIN callerDirectory \cup virtualComponents :
        Cardinality({i \in NodeLines(g) : g[i].from = n}) = 1
  /\ \A i \in NodeLines(g) : g[i].from \in DOMAIN callerDirectory \cup virtualComponents
  /\ \A n \in DOMAIN callerDirectory : \A j \in DOMAIN callerDirectory[n].requires :
        \E i \in EdgeLinesOf(g) :
           g[i].from = n /\ g[i].to = callerDirectory[n].requires[j]
  /\ \A i \in EdgeLinesOf(g) : Requires(g[i].from, g[i].to)
  /\ Cardinality(EdgeLinesOf(g)) = Cardinality(
        UNION {{<<n, j>> : j \in DOMAIN callerDirectory[n].requires}
               : n \in DOMAIN callerDirectory})

(* C9: for every constructed loader, a load of graphviz with every virtual *)
(* component bound whose setup has run is resolved with a graph that has   *)
(* exactly one node per directory component and per virtual component and  *)
(* one edge per requires entry, from the dependent to what it requires.    *)
C9_GraphvizDescribesDirectory ==
  \A c \in DOMAIN calls :
    (calls[c].target = "graphviz" /\ Invocations(c, "graphviz") > 0) =>
      /\ promises[c][calls[c].ret].st = "resolved"
      /\ promises[c][calls[c].ret].val.k = "graph"
      /\ DescribesDirectory(promises[c][calls[c].ret].val.g)

\* The part of C9 the code meets: without virtual components
GraphvizWithoutVirtual ==
  virtualComponents = {} => C9_GraphvizDescribesDirectory

-----------------------------------------------------------------------------
\* A value produced in call c or supplied in its options
OwnValue(c, v) ==
  \/ v.k \in {"built", "error", "graph", "TypeError"} /\ v.c = c
  \/ \E k \in DOMAIN calls[c].options : calls[c].options[k] = v

(* C10: separate invocations of the returned function share no memoization *)
(* state. In every call each setup is invoked at most once; the names      *)
(* bound without a setup are exactly the keys of that call's own options,  *)
(* with that call's values; a promise that is running or resolved had its  *)
(* setup invoked in that call; every value or failure held by a promise or *)
(* handed to a setup was produced in that call or supplied in its options. *)
C10_CallsIsolated ==
  \A c \in DOMAIN calls :
    /\ \A n \in AllNames : Invocations(c, n) <= 1
    /\ \A n \in DOMAIN loaded[c] :
         /\ loaded[c][n] \in DOMAIN promises[c]
         /\ promises[c][loaded[c][n]].name = n
         /\ promises[c][loaded[c][n]].seeded <=> n \in DOMAIN calls[c].options
    /\ \A p \in DOMAIN promises[c] :
         LET pr == promises[c][p] IN
         /\ loaded[c][pr.name] = p
         /\ Range(pr.deps) \subseteq DOMAIN promises[c]
         /\ pr.seeded => pr.val = calls[c].options[pr.name]
         /\ (~pr.seeded /\ pr.st \in {"running", "resolved"}) => pr.ran = 1
         /\ pr.st \in {"resolved", "rejected"} => OwnValue(c, pr.val)
         /\ \A n \in DOMAIN pr.ctx :
              /\ OwnValue(c, pr.ctx[n])
              /\ pr.ctx[n] = promises[c][loaded[c][n]].val

C10_Witness ==
  /\ Len(calls) = 2
  /\ calls[1].target = "B" /\ calls[1].options = ("D" :> Mock(1))
  /\ calls[2].target = "B" /\ calls[2].options = EmptyTable
  /\ Invocations(1, "D") = 0
  /\ \E b \in Invoked(1, "B") :
        promises[1][b].ctx = ("D" :> Mock(1)) /\ promises[1][b].st = "running"
  /\ \E d \in Invoked(2, "D"), b \in Invoked(2, "B") :
        /\ promises[2][b].ctx = ("D" :> Built("D", 2, d))
        /\ promises[2][b].st = "resolved"

-----------------------------------------------------------------------------
(* C11: every invocation of the returned function returns a promise and    *)
(* raises nothing synchronously; in particular an invocation that leaves a *)
(* virtual component unbound returns a promise that is rejected.           *)
C11_FailureThroughDeferred ==
  \A c \in DOMAIN calls :
    /\ ~calls[c].thrown
    /\ calls[c].ret \in DOMAIN promises[c]
    /\ (\E v \in virtualComponents : v \notin DOMAIN calls[c].options)
         => promises[c][calls[c].ret].st = "rejected"

\* The part of C11 the code meets: a call that passes the virtual binding
\* check returns a promise, and a setup that throws or whose promise fails
\* shows as the rejection of the promise claimed for it
SetupFailureThroughDeferred ==
  \A c \in DOMAIN calls : Started(c) =>
    /\ calls[c].ret \in DOMAIN promises[c]
    /\ promises[c][calls[c].ret].name = calls[c].target
    /\ \A p \in DOMAIN promises[c] :
         (promises[c][p].ran > 0 /\ promises[c][p].st \notin {"running", "resolved"})
           => promises[c][p].st = "rejected"

-----------------------------------------------------------------------------
(* C12: the context a setup was invoked with has exactly the names of the  *)
(* component's requires list as keys, each mapped to the value the call    *)
(* resolved that name to (the value supplied in options when the name is a *)
(* key of options, the object its setup returned otherwise); no key of     *)
(* options outside the requires list is in the context.                    *)
C12_ContextIsRequires ==
  \A c \in DOMAIN calls : \A p \in DOMAIN promises[c] :
    promises[c][p].ran > 0 =>
      LET pr == promises[c][p]
          requires == Range(RequiresOf(componentDirectory[pr.name]))
      IN  /\ DOMAIN pr.ctx = requires
          /\ \A n \in requires :
               pr.ctx[n] = IF n \in DOMAIN calls[c].options
                           THEN calls[c].options[n]
                           ELSE Built(n, c, loaded[c][n])
          /\ \A k \in DOMAIN calls[c].options :
               k \notin requires => k \notin DOMAIN pr.ctx

C12_Witness ==
  \E c \in DOMAIN calls :
    /\ calls[c].target = "B"
    /\ calls[c].options = ("V" :> Mock(1)) @@ ("C" :> Mock(1))
    /\ \E d \in Invoked(c, "D"), b \in Invoked(c, "B") :
         promises[c][b].ctx = ("D" :> Built("D", c, d)) @@ ("V" :> Mock(1))

-----------------------------------------------------------------------------
\* The setup of promise d was invoked and the promise it returned is pending.
\* A setup that never settles is in this condition in every state from its
\* invocation on.
Unsettled(heap, d) == heap[d].st = "running"

(* C13 as stated: in every state in which an invoked setup has not         *)
(* settled, no promise that depends on it, the one returned to the caller  *)
(* included, has settled: none has resolved and none has been rejected.    *)
C13_DependentsNeverSettle ==
  \A c \in DOMAIN calls : \A d \in DOMAIN promises[c] :
    Unsettled(promises[c], d) =>
      \A q \in Dependents(promises[c], d) : promises[c][q].st = "waiting"

(* C13 as amended: in every state in which an invoked setup has not        *)
(* settled, no promise that depends on it has had its setup invoked or has *)
(* resolved; a dependent that has been rejected carries the failure of     *)
(* another setup it depends on, and while no setup of the call has failed  *)
(* every dependent is still waiting.                                       *)
C13_DependentsWaitOrFailElsewhere ==
  \A c \in DOMAIN calls : \A d \in DOMAIN promises[c] :
    Unsettled(promises[c], d) =>
      \A q \in Dependents(promises[c], d) :
        /\ promises[c][q].ran = 0
        /\ promises[c][q].st \in {"waiting", "rejected"}
        /\ promises[c][q].st = "rejected" =>
             \E e \in DOMAIN promises[c] \ {d} :
                /\ SetupFailed(promises[c], e)
                /\ q \in Dependents(promises[c], e)
                /\ promises[c][q].val = promises[c][e].val
        /\ (\A e \in DOMAIN promises[c] : ~SetupFailed(promises[c], e))
             => promises[c][q].st = "waiting"

C13_Witness ==
  \E c \in DOMAIN calls :
    /\ calls[c].target = "A"
    /\ \E b, cc \in DOMAIN promises[c] :
         /\ promises[c][b].name = "B" /\ Unsettled(promises[c], b)
         /\ promises[c][cc].name = "C" /\ SetupFailed(promises[c], cc)
         /\ promises[c][calls[c].ret].st = "rejected"
         /\ promises[c][calls[c].ret].val = promises[c][cc].val

-----------------------------------------------------------------------------
\* Promise p was claimed by load(), its setup has not been invoked and every
\* promise it waits for is resolved
Ready(heap, p) ==
  /\ ~heap[p].seeded
  /\ heap[p].st = "waiting"
  /\ heap[p].ran = 0
  /\ \A d \in Range(heap[p].deps) : heap[d].st = "resolved"

\* In the current state nothing that could run has been cancelled
NothingCancelled ==
  \A c \in DOMAIN calls : \A p \in DOMAIN promises[c] :
    /\ Ready(promises[c], p) => ENABLED InvokeSetup(c, p)
    /\ promises[c][p].st = "running" => ENABLED Settle(c, p)
    /\ (promises[c][p].st = "rejected" /\ promises[c][p].ran = 0) =>
         \E e \in DOMAIN promises[c] :
            SetupFailed(promises[c], e) /\ p \in Dependents(promises[c], e)
    /\ (promises[c][p].st = "waiting" /\ promises[c][p].all = "rejected") =>
         \E e \in Range(promises[c][p].deps) : promises[c][e].st = "rejected"

\* Component n was claimed by the first call and its dependencies are resolved
ReadyIn1(n) ==
  /\ calls # <<>>
  /\ n \in DOMAIN loaded[1]
  /\ Ready(promises[1], loaded[1][n])

(* C14: nothing is cancelled. In every state, whatever has failed so far   *)
(* and also after the promise returned to the caller was rejected, the     *)
(* setup of every claimed component whose dependencies are all resolved    *)
(* can be invoked and, with the promise callbacks run fairly, is invoked;  *)
(* every pending setup can still resolve or fail; and the only promises    *)
(* rejected without their setup having been invoked are those that depend  *)
(* on a component whose setup failed.                                      *)
C14_NoCancellation ==
  /\ []NothingCancelled
  /\ \A n \in AllNames : ReadyIn1(n) ~> (calls # <<>> /\ Invocations(1, n) = 1)

C14_Witness ==
  \E c \in DOMAIN calls :
    /\ calls[c].target = "A"
    /\ Started(c)
    /\ promises[c][calls[c].ret].st = "rejected"
    /\ \E b, cc \in DOMAIN promises[c] :
         /\ promises[c][b].name = "B" /\ SetupFailed(promises[c], b)
         /\ promises[c][cc].name = "C" /\ Ready(promises[c], cc)

-----------------------------------------------------------------------------
\* How far component n has come in call c: 0 no entry in the table, 1 claimed
\* and waiting for its dependencies, 2 setup invoked and pending, 3 settled or
\* failed
Progress(tables, heaps, c, n) ==
  IF n \notin DOMAIN tables[c] THEN 0
  ELSE CASE heaps[c][tables[c][n]].st = "waiting" -> 1
         [] heaps[c][tables[c][n]].st = "running" -> 2
         [] OTHER -> 3

\* Every promise of a call is the table entry of its name
OneEntryPerName ==
  \A c \in DOMAIN calls :
    /\ \A p, q \in DOMAIN promises[c] :
         promises[c][p].name = promises[c][q].name => p = q
    /\ \A p \in DOMAIN promises[c] :
         /\ promises[c][p].name \in DOMAIN loaded[c]
         /\ loaded[c][promises[c][p].name] = p
    /\ \A n \in DOMAIN loaded[c] : promises[c][loaded[c][n]].name = n

\* A step keeps every entry of every table, adds none to a table that exists,
\* and moves no component backwards
EntriesKept ==
  \A c \in DOMAIN loaded :
    /\ c \in DOMAIN loaded'
    /\ loaded'[c] = loaded[c]
    /\ DOMAIN promises'[c] = DOMAIN promises[c]
    /\ \A n \in DOMAIN loaded[c] :
         LET before == promises[c][loaded[c][n]]
             after == promises'[c][loaded'[c][n]]
         IN  /\ after.name = n
             /\ after.seeded = before.seeded
             /\ after.deps = before.deps
             /\ after.ran >= before.ran
             /\ Progress(loaded', promises', c, n) >= Progress(loaded, promises, c, n)
             /\ Progress(loaded, promises, c, n) = 3 =>
                  after.st = before.st /\ after.val = before.val

(* C15: within one call the table holds exactly one promise per name, the  *)
(* one seeded from options or claimed by load(); no step overwrites,       *)
(* removes or adds an entry of an existing table, and every component only *)
(* moves forward: claimed, setup pending, then settled or failed, the last *)
(* two never left and their value never changed.                           *)
C15_WrittenOnceAndMonotone ==
  []OneEntryPerName /\ [][EntriesKept]_vars

C15_Witness ==
  \E c \in DOMAIN calls :
    /\ calls[c].target = "A"
    /\ DOMAIN loaded[c] = {"A", "B", "C", "D", "V"}
    /\ Progress(loaded, promises, c, "A") = 1
    /\ Progress(loaded, promises, c, "C") = 2
    /\ SetupFailed(promises[c], loaded[c]["B"])
    /\ promises[c][loaded[c]["D"]].st = "resolved"
    /\ promises[c][loaded[c]["D"]].ran = 1

-----------------------------------------------------------------------------
\* A step leaves the caller's directory, the caller's virtual list and the
\* options of every call made so far as they were
CallerObjectsKept ==
  /\ callerDirectory' = callerDirectory
  /\ virtualComponents' = virtualComponents
  /\ \A c \in DOMAIN calls :
       c \in DOMAIN calls' /\ calls'[c].options = calls[c].options

\* The reserved entry is in the loader's copy only, and loader() run again on
\* the caller's objects succeeds again
PrivateCopy ==
  loaderResult = "ok" =>
    /\ "graphviz" \notin DOMAIN callerDirectory
    /\ "graphviz" \in DOMAIN componentDirectory
    /\ \A n \in DOMAIN callerDirectory : componentDirectory[n] = callerDirectory[n]
    /\ DOMAIN componentDirectory = DOMAIN callerDirectory \cup {"graphviz"}
    /\ ConstructionOutcome(callerDirectory, virtualComponents) = "ok"

(* C16: neither loader() nor a call of the function it returns changes the *)
(* caller's directory (its names, its definitions, their requires lists),  *)
(* the caller's virtual list or the options of a call; after a successful  *)
(* construction graphviz is an entry of the loader's copy and not of the   *)
(* caller's directory, and constructing a loader from the caller's         *)
(* directory again succeeds.                                               *)
C16_CallerObjectsUntouched ==
  []PrivateCopy /\ [][CallerObjectsKept]_vars

C16_Witness ==
  /\ loaderResult = "ok"
  /\ DOMAIN callerDirectory = {"A", "B"}
  /\ callerDirectory["A"].requires = <<"B">>
  /\ DOMAIN componentDirectory = {"A", "B", "graphviz"}
  /\ \E c \in DOMAIN calls :
       /\ calls[c].target = "graphviz"
       /\ Invocations(c, "graphviz") = 1
       /\ promises[c][calls[c].ret].st = "resolved"

-----------------------------------------------------------------------------
\* Promises p and q of one call are both required by promise r and neither
\* depends on the other
Siblings(heap, r, p, q) ==
  /\ p # q
  /\ {p, q} \subseteq Range(heap[r].deps)
  /\ p \notin Dependents(heap, q)
  /\ q \notin Dependents(heap, p)

\* The value a call resolves promise p to when nothing fails
ValueOf(c, p) ==
  IF promises[c][p].seeded THEN calls[c].options[promises[c][p].name]
  ELSE Built(promises[c][p].name, c, p)

(* C17: the setups of two independent components required by the same     *)
(* component are not serialized. While the setup of one is pending the     *)
(* setup of the other can be invoked as soon as its own dependencies are   *)
(* resolved; when both are pending either can complete first; and the      *)
(* component that requires them receives, whatever the order was, the      *)
(* value of each one's own promise.                                        *)
C17_SiblingsConcurrent ==
  \A c \in DOMAIN calls : \A r, p, q \in DOMAIN promises[c] :
    Siblings(promises[c], r, p, q) =>
      /\ (promises[c][p].st = "running" /\ Ready(promises[c], q))
           => ENABLED InvokeSetup(c, q)
      /\ (promises[c][p].st = "running" /\ promises[c][q].st = "running")
           => ENABLED Settle(c, p) /\ ENABLED Settle(c, q)
      /\ promises[c][r].ran > 0 =>
           /\ promises[c][r].ctx[promises[c][p].name] = ValueOf(c, p)
           /\ promises[c][r].ctx[promises[c][q].name] = ValueOf(c, q)

C17_Witness ==
  \E c \in DOMAIN calls :
    /\ calls[c].target = "A"
    /\ \E a, b, cc \in DOMAIN promises[c] :
         /\ promises[c][b].name = "B" /\ promises[c][cc].name = "C"
         /\ Siblings(promises[c], a, b, cc)
         /\ promises[c][b].st = "running"
         /\ promises[c][cc].st = "running"
         /\ promises[c][a].st = "waiting"

-----------------------------------------------------------------------------
\* Names reached from the frontier along requires entries of components that
\* are not keys of options
RECURSIVE NeededFrom(_, _, _)
NeededFrom(bound, frontier, seen) ==
  LET open == {n \in frontier : n \notin bound /\ n \in DOMAIN componentDirectory}
      next == UNION {Range(componentDirectory[n].requires) : n \in open}
  IN  IF next \subseteq seen THEN seen
      ELSE NeededFrom(bound, next \ seen, seen \cup next)

\* The components call c has to construct: those reachable from its target
\* along requires paths that pass through no key of its options
Needed(c) ==
  NeededFrom(DOMAIN calls[c].options, {calls[c].target}, {calls[c].target})
    \ DOMAIN calls[c].options

(* C18: in every call, a promise is claimed and a setup is invoked only    *)
(* for components reachable from the target along requires paths that pass *)
(* through no key of options; every other name has no setup invoked and    *)
(* has an entry in the table only if it is a key of options.               *)
C18_Lazy ==
  \A c \in DOMAIN calls :
    /\ \A p \in DOMAIN promises[c] :
         ~promises[c][p].seeded => promises[c][p].name \in Needed(c)
    /\ \A n \in AllNames \ Needed(c) :
         /\ Invocations(c, n) = 0
         /\ n \in DOMAIN loaded[c] => n \in DOMAIN calls[c].options

C18_Witness ==
  \E c \in DOMAIN calls :
    /\ calls[c].target = "A"
    /\ DOMAIN calls[c].options = {"B", "C", "V"}
    /\ Needed(c) = {"A"}
    /\ \E a \in Invoked(c, "A") : promises[c][a].st = "resolved"
    /\ "D" \notin DOMAIN loaded[c]
    /\ Invocations(c, "D") = 0

-----------------------------------------------------------------------------
\* The setup of component n was invoked in some call and has not settled
SetupPending(n) ==
  \E c \in DOMAIN promises : \E p \in DOMAIN promises[c] :
     promises[c][p].name = n /\ promises[c][p].st = "running"

\* Every setup that is invoked settles at some point
EverySetupSettles == \A n \in AllNames : []<>~SetupPending(n)

NoSetupFailed ==
  \A c \in DOMAIN promises : \A p \in DOMAIN promises[c] :
     ~SetupFailed(promises[c], p)

\* The returned function was invoked and returned a promise
Returned == calls # <<>> /\ Started(1)

ReturnedSettled ==
  Returned /\ promises[1][calls[1].ret].st \in {"resolved", "rejected"}

ReturnedResolved ==
  Returned /\ promises[1][calls[1].ret].st = "resolved"

\* A resolved call holds the value of its target, and every component it
\* needed had its setup invoked exactly once and resolved
ResolvedAfterAll ==
  \A c \in DOMAIN calls :
    (Started(c) /\ promises[c][calls[c].ret].st = "resolved") =>
      /\ promises[c][calls[c].ret].val =
           IF calls[c].target \in DOMAIN calls[c].options
           THEN calls[c].options[calls[c].target]
           ELSE IF calls[c].target = "graphviz"
                THEN Graph(c, calls[c].ret,
                           renderGraph(componentDirectory, topoSorted).lines)
                ELSE Built(calls[c].target, c, calls[c].ret)
      /\ \A n \in Needed(c) :
           /\ Invocations(c, n) = 1
           /\ promises[c][loaded[c][n]].st = "resolved"
      /\ \A n \in AllNames \ Needed(c) : Invocations(c, n) = 0

(* C19: with the promise callbacks run fairly, if every setup that is      *)
(* invoked settles at some point then the promise a call returned settles  *)
(* at some point; if moreover no setup fails it is resolved; and a call    *)
(* that is resolved holds the value of its target's setup (the supplied    *)
(* value when the target is a key of options) and every component          *)
(* reachable from the target without passing through a key of options had  *)
(* its setup invoked exactly once.                                         *)
C19_EventuallySettles ==
  /\ []ResolvedAfterAll
  /\ EverySetupSettles => (Returned ~> ReturnedSettled)
  /\ (EverySetupSettles /\ []NoSetupFailed) => (Returned ~> ReturnedResolved)

C19_Witness ==
  /\ ReturnedResolved
  /\ calls[1].target = "A"
  /\ DOMAIN calls[1].options = {"V"}
  /\ Needed(1) = {"A", "B", "C", "D"}
  /\ \A n \in Needed(1) : Invocations(1, n) = 1
  /\ promises[1][calls[1].ret].val = Built("A", 1, calls[1].ret)

=============================================================================
